---------------------------- MODULE Spec2Model ----------------------------
(***************************************************************************)
(* The install-plugin command of command/common/install_plugin_command.go  *)
(* as a state machine.  One attempt (one call of Execute) walks through    *)
(* the program points of Execute; the variables outside the attempt are    *)
(* the plugin registry, the directory of installed binaries and the        *)
(* temporary directory.  The InstallPluginActor methods, the RPC service,  *)
(* the UI prompt and util.DeterminePathType are collaborators whose code   *)
(* is outside the package: they are modelled from the specification and    *)
(* every outcome their signature allows is a nondeterministic choice.      *)
(* The stack methods of the v2action actor (unnamed/part_000) are a second *)
(* machine, StackSpec, over their own variables.                           *)
(***************************************************************************)
EXTENDS Naturals, Integers, Sequences, FiniteSets, TLC

(***************************** bounds ************************************)
MaxVersion == 2
MaxCommands == 1
MaxStacks == 2
MaxWarnings == 1

(***************************** value sets ********************************)
PluginNames == {"echo", "echo2"}
CommandNames == {"say-hi", "bye"}
BuiltinCommands == {"help"}
NoAlias == ""

LocalPaths == {"/dl/plugin", "/dl/missing"}
URLs == {"https://example.com/plugin"}
RepoPluginNames == {"plugin-echo"}
Sources == LocalPaths \cup URLs \cup RepoPluginNames \cup {""}
TempPaths == {"/tmp/a", "/tmp/b"}

Versions == 1..MaxVersion
CommandSpecs == [Name : CommandNames \cup BuiltinCommands,
                 Alias : CommandNames \cup BuiltinCommands \cup {NoAlias}]
CommandLists == UNION {[1..n -> CommandSpecs] : n \in 1..MaxCommands}
PluginMetadata == [Name : PluginNames \cup BuiltinCommands \cup {""},
                   Version : Versions,
                   Commands : CommandLists]
NoPlugin == [Name |-> "", Version |-> 0, Commands |-> <<>>]

\* v2action (unnamed/part_000): stacks, the client's warnings and errors.
StackNames == {"cflinuxfs2", "windows"}
StackGUIDs == {"guid-1", "guid-2"}
Stacks == [GUID : StackGUIDs, Name : StackNames]
EmptyStack == [GUID |-> "", Name |-> ""]
StackLists == UNION {[1..n -> Stacks] : n \in 0..MaxStacks}
WarningLists == UNION {[1..n -> {"deprecated endpoint"}] : n \in 0..MaxWarnings}

(***************************** errors ************************************)
\* An error value: its type, the package layer that made it, and its fields.
Error(kind) == [kind |-> kind, layer |-> "command", Name |-> "", Version |-> 0,
                Path |-> "", With |-> ""]
ActorError(kind) == [Error(kind) EXCEPT !.layer = "actor"]
NoError == [Error("nil") EXCEPT !.layer = ""]

\* Errors of the v2action package and of its cloud controller client.
NilError == [kind |-> "nil", Name |-> "", GUID |-> ""]
ClientError(kind) == [kind |-> kind, Name |-> "", GUID |-> ""]
ClientErrors == {ClientError("ResourceNotFoundError"), ClientError("RequestError")}
StackNotFoundError(name, guid) == [kind |-> "StackNotFoundError", Name |-> name, GUID |-> guid]

(***************************** variables *********************************)
VARIABLES
    registry,        \* set of installed plugin entries (the plugin config)
    pluginHome,      \* binaries at their install location: [Name, Version]
    tempDir,         \* temporary paths that exist on disk
    userFiles,       \* local paths that exist on disk
    pc,              \* program point of the current attempt
    pluginPath,      \* cmd.OptionalArgs.PathURLOrPluginName
    Force,           \* cmd.Force
    tempPluginPath,  \* what preparePluginForInstallation returned
    plugin,          \* what GetAndValidatePlugin returned
    err,             \* what Execute returned
    calls,           \* the collaborator calls of this attempt, in order
    regAtStart,      \* registry when the attempt began
    homeAtStart,     \* pluginHome when the attempt began
    subprocess,      \* the plugin subprocess of the RPC bridge
    reported,        \* name and command names the plugin reported of itself
    stackCall,       \* the v2action stack method called last and its argument
    clientReply,     \* what the cloud controller client returned to it
    stackReturn      \* what the method returned

vars == <<registry, pluginHome, tempDir, userFiles, pc, pluginPath, Force,
          tempPluginPath, plugin, err, calls, regAtStart, homeAtStart,
          subprocess, reported, stackCall, clientReply, stackReturn>>

disk == <<registry, pluginHome, tempDir, userFiles>>
inputs == <<pluginPath, Force, regAtStart, homeAtStart>>
rpcState == <<subprocess, reported>>
stackVars == <<stackCall, clientReply, stackReturn>>
installVars == <<disk, pc, inputs, rpcState, tempPluginPath, plugin, err, calls>>

Call(op, ok) == [op |-> op, ok |-> ok, arg |-> ""]
CallWith(op, ok, arg) == [op |-> op, ok |-> ok, arg |-> arg]
Called(op) == \E i \in 1..Len(calls) : calls[i].op = op
CalledOk(op) == \E i \in 1..Len(calls) : calls[i].op = op /\ calls[i].ok

(***************************** registry **********************************)
InstalledNames(reg) == {e.Name : e \in reg}
IsPluginInstalled(reg, name) == name \in InstalledNames(reg)

RegistryRemove(reg, name) == {e \in reg : e.Name # name}
RegistryAdd(reg, p) == RegistryRemove(reg, p.Name) \cup {p}
HomeRemove(home, name) == {b \in home : b.Name # name}
HomeMove(home, p) == HomeRemove(home, p.Name) \cup {[Name |-> p.Name, Version |-> p.Version]}

(***************************** validator *********************************)
Owned(cmds) == ({cmds[i].Name : i \in 1..Len(cmds)} \cup
                {cmds[i].Alias : i \in 1..Len(cmds)}) \ {NoAlias}
NumOwned(cmds) == Len(cmds) + Cardinality({i \in 1..Len(cmds) : cmds[i].Alias # NoAlias})
Colliders(m, reg) == {e \in reg : e.Name # m.Name /\ Owned(e.Commands) \cap Owned(m.Commands) # {}}

Validate(m, reg) ==
    IF m.Name = "" \/ m.Name \in BuiltinCommands
    THEN [ActorError("NameCollisionError") EXCEPT !.Name = m.Name]
    ELSE IF Owned(m.Commands) \cap BuiltinCommands # {}
    THEN [ActorError("CommandCollisionError") EXCEPT !.With = "core"]
    ELSE IF Colliders(m, reg) # {}
    THEN [ActorError("CommandCollisionError") EXCEPT
             !.With = (CHOOSE e \in Colliders(m, reg) : TRUE).Name]
    ELSE IF Cardinality(Owned(m.Commands)) < NumOwned(m.Commands)
    THEN ActorError("SelfCollisionError")
    ELSE NoError

\* What is kept of the metadata a plugin reported: its name, the command
\* names and aliases it declares, and how many declarations those are.
NothingReported == [Name |-> "", Owns |-> {}, Count |-> 0]
Reported(bridge, m) ==
    IF bridge = "ok"
    THEN [Name |-> m.Name, Owns |-> Owned(m.Commands), Count |-> NumOwned(m.Commands)]
    ELSE NothingReported

BridgeOutcomes == {"ok", "HandshakeTimeoutError", "PluginCommunicationError",
                   "PluginInvalidError"}

\* The error GetAndValidatePlugin returns for a binary at `path` whose bridge
\* ends `bridge` and whose metadata is m.
GetAndValidatePlugin(bridge, m, path, reg) ==
    IF bridge = "PluginInvalidError"
    THEN [ActorError("PluginInvalidError") EXCEPT !.Path = path]
    ELSE IF bridge # "ok" THEN ActorError(bridge)
    ELSE Validate(m, reg)

\* shared.HandleError: the command-layer error of an actor-layer error, with
\* the same type name and fields.
HandleError(e) == [e EXCEPT !.layer = "command"]

(***************************** path type *********************************)
DeterminePathType(s) ==
    IF s \in URLs THEN "PluginHTTPPath"
    ELSE IF s \in LocalPaths THEN "PluginFilePath"
    ELSE "PluginUnknown"

FileExists(files, path) == path \in files

\* os.Remove(path): the directory without path; a path that does not exist
\* (the empty path included) is an error the caller drops.
OsRemove(dir, path) == dir \ {path}

(***************************** stacks ************************************)
\* What a method or the client hands back: (stack, warnings, error).
Reply(stack, warnings, e) == [stack |-> stack, warnings |-> warnings, err |-> e]
NoReply == Reply(EmptyStack, <<>>, NilError)
NoClientReply == [stacks |-> <<>>, warnings |-> <<>>, err |-> NilError]
NoStackCall == [op |-> "", arg |-> ""]

\* The error check made after the length check: a non-empty result is
\* answered with its first stack whatever the client's error.
GetStackByNameLengthFirst(stackName, stacks, warnings, e) ==
    IF Len(stacks) > 0 THEN Reply(stacks[1], warnings, NilError)
    ELSE IF e # NilError THEN Reply(EmptyStack, warnings, e)
    ELSE Reply(EmptyStack, warnings, StackNotFoundError(stackName, ""))

\* part_000 lines 34-50, given what CloudControllerClient.GetStacks returned
\* for the name query.  Warnings(warnings) converts between two names of the
\* same slice type.
GetStackByName(stackName, stacks, warnings, e) ==
    IF e # NilError THEN Reply(EmptyStack, warnings, e)
    ELSE IF Len(stacks) = 0
    THEN Reply(EmptyStack, warnings, StackNotFoundError(stackName, ""))
    ELSE Reply(stacks[1], warnings, NilError)

\* part_000 lines 23-30, given what CloudControllerClient.GetStack returned.
GetStack(guid, stack, warnings, e) ==
    IF e.kind = "ResourceNotFoundError"
    THEN Reply(EmptyStack, warnings, StackNotFoundError("", guid))
    ELSE Reply(stack, warnings, e)

(***************************** Init **************************************)
Init ==
    /\ registry = {}
    /\ pluginHome = {}
    /\ tempDir = {}
    /\ userFiles = {"/dl/plugin"}
    /\ pc = "idle"
    /\ pluginPath = ""
    /\ Force = FALSE
    /\ tempPluginPath = ""
    /\ plugin = NoPlugin
    /\ err = NoError
    /\ calls = <<>>
    /\ regAtStart = {}
    /\ homeAtStart = {}
    /\ subprocess = "none"
    /\ reported = NothingReported
    /\ stackCall = NoStackCall
    /\ clientReply = NoClientReply
    /\ stackReturn = NoReply

Resting == pc \in {"idle", "done", "legacy", "crashed"}

(***************************** Execute ***********************************)
\* The deferred removal left out: the staged file outlives the attempt.
DeferredRemoveDropped(dir, tmp) == dir

\* Every return of Execute after line 60 runs the deferred
\* os.Remove(tempPluginPath), whose argument was fixed when the defer
\* statement ran: tmp is that argument.
DeferredRemove(dir, tmp) == OsRemove(dir, tmp)

Return(e, tmp) ==
    /\ pc' = "done"
    /\ err' = e
    /\ tempDir' = DeferredRemove(tempDir, tmp)
    /\ userFiles' = DeferredRemove(userFiles, tmp)

Begin(path, force) ==
    /\ Resting
    /\ pluginPath' = path
    /\ Force' = force
    /\ tempPluginPath' = ""
    /\ plugin' = NoPlugin
    /\ calls' = <<>>
    /\ regAtStart' = registry
    /\ homeAtStart' = pluginHome
    /\ subprocess' = "none"
    /\ reported' = NothingReported
    /\ UNCHANGED stackVars

\* Lines 47-50: outside experimental mode the command hands over to the
\* legacy implementation (oldCmd.Main), which is not part of this package,
\* and returns nil.  No step of this pipeline runs.
ExecuteLegacy ==
    \E path \in Sources, force \in BOOLEAN :
        /\ Begin(path, force)
        /\ pc' = "legacy"
        /\ err' = NoError
        /\ UNCHANGED disk

\* Lines 52-56.
ExecuteMissingArgument ==
    \E force \in BOOLEAN :
        /\ Begin("", force)
        /\ pc' = "done"
        /\ err' = Error("RequiredArgumentError")
        /\ UNCHANGED disk

\* Lines 52-58: a non-empty argument enters preparePluginForInstallation.
ExecuteStart ==
    \E path \in Sources \ {""}, force \in BOOLEAN :
        /\ Begin(path, force)
        /\ pc' = "prepare"
        /\ err' = NoError
        /\ UNCHANGED disk

\* The existence check left out: a missing local file goes on to the prompt.
PrepareWithoutFileCheck ==
    /\ pc = "prepare"
    /\ LET pathType == DeterminePathType(pluginPath) IN
       IF pathType \in {"PluginFilePath", "PluginHTTPPath"}
       THEN /\ pc' = "prompt"
            /\ UNCHANGED <<err, tempDir, userFiles, calls>>
       ELSE /\ Return([Error("UnsupportedURLSchemeError") EXCEPT !.Path = pluginPath], "")
            /\ UNCHANGED calls
    /\ UNCHANGED <<registry, pluginHome, inputs, stackVars, rpcState, tempPluginPath, plugin>>

\* The default case of the switch missing: a source of unknown type is
\* treated like a URL and goes on to the prompt.
PrepareWithoutDefault ==
    /\ pc = "prepare"
    /\ LET pathType == DeterminePathType(pluginPath) IN
       IF pathType = "PluginFilePath" /\ ~FileExists(userFiles, pluginPath)
       THEN /\ calls' = Append(calls, Call("FileExists", FALSE))
            /\ Return([Error("FileNotFoundError") EXCEPT !.Path = pluginPath], "")
       ELSE /\ calls' = IF pathType = "PluginFilePath"
                        THEN Append(calls, Call("FileExists", TRUE))
                        ELSE calls
            /\ pc' = "prompt"
            /\ UNCHANGED <<err, tempDir, userFiles>>
    /\ UNCHANGED <<registry, pluginHome, inputs, stackVars, rpcState, tempPluginPath, plugin>>

\* Lines 135-141, 151, 168: the switch on the path type.
Prepare ==
    /\ pc = "prepare"
    /\ LET pathType == DeterminePathType(pluginPath) IN
       CASE pathType = "PluginFilePath" ->
              IF ~FileExists(userFiles, pluginPath)
              THEN /\ calls' = Append(calls, Call("FileExists", FALSE))
                   /\ Return([Error("FileNotFoundError") EXCEPT !.Path = pluginPath], "")
              ELSE /\ calls' = Append(calls, Call("FileExists", TRUE))
                   /\ pc' = "prompt"
                   /\ UNCHANGED <<err, tempDir, userFiles>>
         [] pathType = "PluginHTTPPath" ->
              /\ pc' = "prompt"
              /\ UNCHANGED <<err, tempDir, userFiles, calls>>
         [] OTHER ->
              /\ Return([Error("UnsupportedURLSchemeError") EXCEPT !.Path = pluginPath], "")
              /\ UNCHANGED calls
    /\ UNCHANGED <<registry, pluginHome, inputs, stackVars, rpcState, tempPluginPath, plugin>>

\* The prompt skipped whatever the force flag says.
PromptSkippedAlways ==
    /\ pc = "prompt"
    /\ calls' = Append(calls, Call("DisplayHeader", TRUE))
    /\ pc' = "stage"
    /\ UNCHANGED <<disk, inputs, stackVars, rpcState, tempPluginPath, plugin, err>>

\* The answer to the prompt not looked at: a declined install goes on.
PromptAnsweredDeclineIgnored ==
    /\ pc = "prompt"
    /\ ~Force
    /\ \E really \in BOOLEAN :
        calls' = calls \o <<Call("DisplayHeader", TRUE), Call("DisplayBoolPrompt", really)>>
    /\ pc' = "stage"
    /\ UNCHANGED <<disk, inputs, stackVars, rpcState, tempPluginPath, plugin, err>>

\* Lines 171-188: promptForInstallPlugin.  The warning headers are shown
\* first; the prompt is asked unless Force is set.
PromptSkipped ==
    /\ pc = "prompt"
    /\ Force
    /\ calls' = Append(calls, Call("DisplayHeader", TRUE))
    /\ pc' = "stage"
    /\ UNCHANGED <<disk, inputs, stackVars, rpcState, tempPluginPath, plugin, err>>

PromptAnswered ==
    /\ pc = "prompt"
    /\ ~Force
    /\ \E really \in BOOLEAN :
        /\ calls' = calls \o <<Call("DisplayHeader", TRUE), Call("DisplayBoolPrompt", really)>>
        /\ IF really
           THEN /\ pc' = "stage"
                /\ UNCHANGED <<err, tempDir, userFiles>>
           ELSE Return(Error("PluginInstallationCancelled"), "")
    /\ UNCHANGED <<registry, pluginHome, inputs, stackVars, rpcState, tempPluginPath, plugin>>

PromptFailed ==
    /\ pc = "prompt"
    /\ ~Force
    /\ calls' = calls \o <<Call("DisplayHeader", TRUE), Call("DisplayBoolPromptError", FALSE)>>
    /\ Return(Error("PromptError"), "")
    /\ UNCHANGED <<registry, pluginHome, inputs, stackVars, rpcState, tempPluginPath, plugin>>

\* No copy made: the user's own path is returned as the staged path.
StageCopyInPlace ==
    /\ pc = "stage"
    /\ DeterminePathType(pluginPath) = "PluginFilePath"
    /\ calls' = Append(calls, Call("CreateExecutableCopy", TRUE))
    /\ tempPluginPath' = pluginPath
    /\ pc' = "rpc"
    /\ UNCHANGED <<disk, inputs, stackVars, rpcState, plugin, err>>

\* Line 149: Actor.CreateExecutableCopy copies the user's file to a new
\* temporary path.  It returns (path, nil), or an error together with either
\* no path or the path of the copy it began.
StageCopy ==
    /\ pc = "stage"
    /\ DeterminePathType(pluginPath) = "PluginFilePath"
    /\ \E t \in TempPaths \ tempDir :
        /\ calls' = Append(calls, Call("CreateExecutableCopy", TRUE))
        /\ tempDir' = tempDir \cup {t}
        /\ tempPluginPath' = t
        /\ pc' = "rpc"
        /\ UNCHANGED err
    /\ UNCHANGED <<registry, pluginHome, userFiles, inputs, stackVars, rpcState, plugin>>

StageCopyFailed ==
    /\ pc = "stage"
    /\ DeterminePathType(pluginPath) = "PluginFilePath"
    /\ calls' = Append(calls, Call("CreateExecutableCopy", FALSE))
    /\ \/ /\ tempPluginPath' = ""
          /\ Return(ActorError("CopyError"), "")
       \/ \E t \in TempPaths \ tempDir :
          /\ tempPluginPath' = t
          /\ pc' = "done"
          /\ err' = ActorError("CopyError")
          /\ tempDir' = DeferredRemove(tempDir \cup {t}, t)
          /\ userFiles' = DeferredRemove(userFiles, t)
    /\ UNCHANGED <<registry, pluginHome, inputs, stackVars, rpcState, plugin>>

\* Lines 157-165: Actor.FetchPluginFromURL streams the download into a new
\* temporary file; os.Stat of the returned path gives the size displayed.
StageFetch ==
    /\ pc = "stage"
    /\ DeterminePathType(pluginPath) = "PluginHTTPPath"
    /\ \E t \in TempPaths \ tempDir :
        /\ calls' = Append(calls, Call("FetchPluginFromURL", TRUE))
        /\ tempDir' = tempDir \cup {t}
        /\ tempPluginPath' = t
        /\ pc' = "rpc"
    /\ UNCHANGED <<registry, pluginHome, userFiles, inputs, stackVars, rpcState, plugin, err>>

\* Line 159 drops the error of FetchPluginFromURL.  When the returned path
\* names no file, os.Stat fails, stat is nil and stat.Size() on line 162
\* panics: Execute does not return and its defer was never registered.
\* When the returned path names the file the failed download left behind,
\* line 165 returns it with a nil error and the attempt goes on.
StageFetchFailed ==
    /\ pc = "stage"
    /\ DeterminePathType(pluginPath) = "PluginHTTPPath"
    /\ calls' = Append(calls, Call("FetchPluginFromURL", FALSE))
    /\ \/ /\ tempPluginPath' = ""
          /\ pc' = "crashed"
          /\ UNCHANGED tempDir
       \/ \E t \in TempPaths \ tempDir :
          /\ tempDir' = tempDir \cup {t}
          /\ tempPluginPath' = t
          /\ pc' = "rpc"
    /\ UNCHANGED <<registry, pluginHome, userFiles, inputs, stackVars, rpcState, plugin, err>>

\* Lines 65-68: shared.NewRPCService.
NewRPCService ==
    /\ pc = "rpc"
    /\ \E ok \in BOOLEAN :
        /\ calls' = Append(calls, Call("NewRPCService", ok))
        /\ IF ok
           THEN /\ pc' = "validate"
                /\ UNCHANGED <<err, tempDir, userFiles>>
           ELSE Return(Error("RPCServiceError"), tempPluginPath)
    /\ UNCHANGED <<registry, pluginHome, inputs, stackVars, rpcState, tempPluginPath, plugin>>

\* The validation error dropped: the attempt goes on with whatever metadata
\* the plugin reported.
ValidateStepUnchecked(bridge, m) ==
    /\ calls' = Append(calls, CallWith("GetAndValidatePlugin", TRUE, tempPluginPath))
    /\ reported' = Reported(bridge, m)
    /\ subprocess' = "terminated"
    /\ plugin' = m
    /\ pc' = "conflict"
    /\ UNCHANGED <<err, tempDir, userFiles>>

\* The path not rewritten: the error keeps the path the actor was given.
ValidationErrorKeepingPath(e, path) == HandleError(e)

\* Lines 70-77: the error of a failed validation; a PluginInvalidError is
\* rebuilt with the user's path in place of the temporary one.
ValidationError(e, path) ==
    HandleError(IF e.kind = "PluginInvalidError"
                THEN [ActorError("PluginInvalidError") EXCEPT !.Path = path]
                ELSE e)

\* A command collision with another plugin not treated as an error.
ValidateStepCollisionIgnored(bridge, m) ==
    LET e == GetAndValidatePlugin(bridge, m, tempPluginPath, registry) IN
    /\ calls' = Append(calls, CallWith("GetAndValidatePlugin",
                                       e.kind \in {"nil", "CommandCollisionError"},
                                       tempPluginPath))
    /\ reported' = Reported(bridge, m)
    /\ subprocess' = "terminated"
    /\ IF e.kind \notin {"nil", "CommandCollisionError"}
       THEN /\ Return(ValidationError(e, pluginPath), tempPluginPath)
            /\ UNCHANGED plugin
       ELSE /\ plugin' = m
            /\ pc' = "conflict"
            /\ UNCHANGED <<err, tempDir, userFiles>>

ValidateStep(bridge, m) ==
    LET e == GetAndValidatePlugin(bridge, m, tempPluginPath, registry) IN
    /\ calls' = Append(calls, CallWith("GetAndValidatePlugin", e = NoError, tempPluginPath))
    /\ reported' = Reported(bridge, m)
    /\ subprocess' = "terminated"
    /\ IF e # NoError
       THEN /\ Return(ValidationError(e, pluginPath), tempPluginPath)
            /\ UNCHANGED plugin
       ELSE /\ plugin' = m
            /\ pc' = "conflict"
            /\ UNCHANGED <<err, tempDir, userFiles>>

\* Line 70, inside Actor.GetAndValidatePlugin: the bridge launches the
\* staged binary as a subprocess ...
BridgeStart ==
    /\ pc = "validate"
    /\ subprocess' = "running"
    /\ pc' = "bridge"
    /\ UNCHANGED <<disk, inputs, stackVars, reported, tempPluginPath, plugin, err, calls>>

\* ... and the handshake and the metadata call end within their timeouts,
\* after which the subprocess is terminated whatever the outcome.
GetAndValidate ==
    /\ pc = "bridge"
    /\ \/ \E bridge \in BridgeOutcomes \ {"ok"} : ValidateStep(bridge, NoPlugin)
       \/ \E m \in PluginMetadata : ValidateStep("ok", m)
    /\ UNCHANGED <<registry, pluginHome, inputs, stackVars, tempPluginPath>>

\* The force flag not consulted: an installed plugin is always replaced.
ConflictCheckIgnoringForce ==
    /\ pc = "conflict"
    /\ calls' = Append(calls, Call("IsPluginInstalled", IsPluginInstalled(registry, plugin.Name)))
    /\ pc' = IF IsPluginInstalled(registry, plugin.Name) THEN "uninstall" ELSE "install"
    /\ UNCHANGED <<disk, inputs, stackVars, rpcState, tempPluginPath, plugin, err>>

\* The uninstall of the old version left out of a forced install.
ConflictCheckWithoutUninstall ==
    /\ pc = "conflict"
    /\ calls' = Append(calls, Call("IsPluginInstalled", IsPluginInstalled(registry, plugin.Name)))
    /\ IF IsPluginInstalled(registry, plugin.Name) /\ ~Force
       THEN Return([Error("PluginAlreadyInstalledError") EXCEPT
                       !.Name = plugin.Name,
                       !.Version = plugin.Version,
                       !.Path = pluginPath], tempPluginPath)
       ELSE /\ pc' = "install"
            /\ UNCHANGED <<err, tempDir, userFiles>>
    /\ UNCHANGED <<registry, pluginHome, inputs, stackVars, rpcState, tempPluginPath, plugin>>

\* Lines 79-92: the already-installed check.
ConflictCheck ==
    /\ pc = "conflict"
    /\ calls' = Append(calls, Call("IsPluginInstalled", IsPluginInstalled(registry, plugin.Name)))
    /\ IF IsPluginInstalled(registry, plugin.Name)
       THEN IF ~Force
            THEN Return([Error("PluginAlreadyInstalledError") EXCEPT
                            !.Name = plugin.Name,
                            !.Version = plugin.Version,
                            !.Path = pluginPath], tempPluginPath)
            ELSE /\ pc' = "uninstall"
                 /\ UNCHANGED <<err, tempDir, userFiles>>
       ELSE /\ pc' = "install"
            /\ UNCHANGED <<err, tempDir, userFiles>>
    /\ UNCHANGED <<registry, pluginHome, inputs, stackVars, rpcState, tempPluginPath, plugin>>

\* Lines 88-91 and 115-132: uninstallPlugin.  Actor.UninstallPlugin removes
\* the registry entry and its installed binary, or fails and changes nothing.
UninstallExisting ==
    /\ pc = "uninstall"
    /\ calls' = Append(calls, Call("UninstallPlugin", TRUE))
    /\ registry' = RegistryRemove(registry, plugin.Name)
    /\ pluginHome' = HomeRemove(pluginHome, plugin.Name)
    /\ pc' = "install"
    /\ UNCHANGED <<tempDir, userFiles, inputs, stackVars, rpcState, tempPluginPath, plugin, err>>

\* The uninstall error dropped: the install goes on.
UninstallExistingFailedIgnored ==
    /\ pc = "uninstall"
    /\ calls' = Append(calls, Call("UninstallPlugin", FALSE))
    /\ pc' = "install"
    /\ UNCHANGED <<disk, inputs, stackVars, rpcState, tempPluginPath, plugin, err>>

UninstallExistingFailed ==
    /\ pc = "uninstall"
    /\ calls' = Append(calls, Call("UninstallPlugin", FALSE))
    /\ Return(ActorError("UninstallError"), tempPluginPath)
    /\ UNCHANGED <<registry, pluginHome, inputs, stackVars, rpcState, tempPluginPath, plugin>>

\* Lines 94 and 97-105: installPlugin calls Actor.InstallPluginFromPath, which
\* first moves the staged binary to its install location (the call is logged
\* with the outcome of the move) ...
InstallMove ==
    /\ pc = "install"
    /\ \E ok \in BOOLEAN :
        /\ calls' = Append(calls, CallWith("InstallPluginFromPath", ok, tempPluginPath))
        /\ IF ok
           THEN /\ tempDir' = OsRemove(tempDir, tempPluginPath)
                /\ userFiles' = OsRemove(userFiles, tempPluginPath)
                /\ pluginHome' = HomeMove(pluginHome, plugin)
                /\ pc' = "add"
                /\ UNCHANGED err
           ELSE /\ Return(ActorError("MoveError"), tempPluginPath)
                /\ UNCHANGED pluginHome
    /\ UNCHANGED <<registry, inputs, stackVars, rpcState, tempPluginPath, plugin>>

\* ... and then adds the registry entry; lines 107-112 report success.
InstallAdd ==
    /\ pc = "add"
    /\ calls' = Append(calls, Call("Registry.add", TRUE))
    /\ registry' = RegistryAdd(registry, plugin)
    /\ Return(NoError, tempPluginPath)
    /\ UNCHANGED <<pluginHome, inputs, stackVars, rpcState, tempPluginPath, plugin>>

\* The rollback left out: the moved binary stays without a registry entry.
RollbackMoveSkipped(home, name) == home

\* The binary a failed add leaves at the install location is deleted before
\* InstallPluginFromPath returns its error.
RollbackMove(home, name) == HomeRemove(home, name)

\* The error of InstallPluginFromPath not returned: a failed commit is
\* reported as a success.
InstallAddFailedUnreported ==
    /\ pc = "add"
    /\ calls' = Append(calls, Call("Registry.add", FALSE))
    /\ pluginHome' = RollbackMove(pluginHome, plugin.Name)
    /\ Return(NoError, tempPluginPath)
    /\ UNCHANGED <<registry, inputs, stackVars, rpcState, tempPluginPath, plugin>>

\* A failed add: the move is rolled back and lines 103-105 return the error.
InstallAddFailed ==
    /\ pc = "add"
    /\ calls' = Append(calls, Call("Registry.add", FALSE))
    /\ pluginHome' = RollbackMove(pluginHome, plugin.Name)
    /\ Return(ActorError("RegistryWriteError"), tempPluginPath)
    /\ UNCHANGED <<registry, inputs, stackVars, rpcState, tempPluginPath, plugin>>

(***************************** uninstall-plugin **************************)
\* The uninstall operation on its own, between attempts: Registry.remove and
\* the deletion of the installed binary; a name that is not installed is a
\* no-op.
UninstallCommand ==
    /\ Resting
    /\ \E name \in PluginNames :
        /\ registry' = RegistryRemove(registry, name)
        /\ pluginHome' = HomeRemove(pluginHome, name)
    /\ pc' = "idle"
    /\ pluginPath' = ""
    /\ Force' = FALSE
    /\ tempPluginPath' = ""
    /\ plugin' = NoPlugin
    /\ err' = NoError
    /\ calls' = <<>>
    /\ regAtStart' = registry'
    /\ homeAtStart' = pluginHome'
    /\ subprocess' = "none"
    /\ reported' = NothingReported
    /\ UNCHANGED <<tempDir, userFiles, stackVars>>

(***************************** specification *****************************)
Next ==
    \/ ExecuteLegacy
    \/ ExecuteMissingArgument
    \/ ExecuteStart
    \/ Prepare
    \/ PromptSkipped
    \/ PromptAnswered
    \/ PromptFailed
    \/ StageCopy
    \/ StageCopyFailed
    \/ StageFetch
    \/ StageFetchFailed
    \/ NewRPCService
    \/ BridgeStart
    \/ GetAndValidate
    \/ ConflictCheck
    \/ UninstallExisting
    \/ UninstallExistingFailed
    \/ InstallMove
    \/ InstallAdd
    \/ InstallAddFailed
    \/ UninstallCommand

Spec == Init /\ [][Next]_vars

(***************************** v2action stacks ***************************)
\* One call of Actor.GetStackByName: the client answers the name query with
\* any list of stacks, any warnings and any error its signature allows.
CallGetStackByName ==
    \E stackName \in StackNames, stacks \in StackLists,
       warnings \in WarningLists, e \in ClientErrors \cup {NilError} :
        /\ stackCall' = [op |-> "GetStackByName", arg |-> stackName]
        /\ clientReply' = [stacks |-> stacks, warnings |-> warnings, err |-> e]
        /\ stackReturn' = GetStackByName(stackName, stacks, warnings, e)
        /\ UNCHANGED installVars

\* One call of Actor.GetStack.
CallGetStack ==
    \E guid \in StackGUIDs, stack \in Stacks \cup {EmptyStack},
       warnings \in WarningLists, e \in ClientErrors \cup {NilError} :
        /\ stackCall' = [op |-> "GetStack", arg |-> guid]
        /\ clientReply' = [stacks |-> <<stack>>, warnings |-> warnings, err |-> e]
        /\ stackReturn' = GetStack(guid, stack, warnings, e)
        /\ UNCHANGED installVars

StackNext ==
    \/ CallGetStackByName
    \/ CallGetStack

StackSpec == Init /\ [][StackNext]_vars

(***************************** properties ********************************)
StagingCalled == Called("CreateExecutableCopy") \/ Called("FetchPluginFromURL")
CommitBegun == pc \in {"install", "add"} \/ Called("InstallPluginFromPath")
EntriesNamed(reg, name) == {e \in reg : e.Name = name}
BinariesNamed(home, name) == {b \in home : b.Name = name}
BinaryOf(e) == [Name |-> e.Name, Version |-> e.Version]

\* C1: in every state reached by installs, forced reinstalls and uninstalls
\* from the empty registry, two distinct installed plugins share no command
\* name or alias, and no installed plugin owns a built-in command name.
C1_NoSharedCommands ==
    /\ \A P \in registry : \A Q \in registry \ {P} :
           Owned(P.Commands) \cap Owned(Q.Commands) = {}
    /\ \A P \in registry : Owned(P.Commands) \cap BuiltinCommands = {}

\* Two plugins are installed after an attempt that replaced one of them by force.
C1_Witness ==
    /\ pc = "done"
    /\ err = NoError
    /\ CalledOk("UninstallPlugin")
    /\ CalledOk("Registry.add")
    /\ Cardinality(registry) = 2

\* C2: when Execute has returned and the attempt staged a temporary binary,
\* no file exists at the staged path.
C2_StagedFileRemoved ==
    (pc = "done" /\ StagingCalled /\ tempPluginPath # "") => tempPluginPath \notin tempDir

\* An attempt that staged a copy returned an error before the commit moved it.
C2_Witness ==
    /\ pc = "done"
    /\ CalledOk("CreateExecutableCopy")
    /\ tempPluginPath \in TempPaths
    /\ err.kind = "PluginAlreadyInstalledError"

\* C3: an attempt whose validated plugin name was installed, made without
\* force, ends with the already-installed error, calls neither UninstallPlugin
\* nor InstallPluginFromPath and leaves registry and installed binaries as
\* they were.  It holds from every reachable state, the one a first rejection
\* left included, so a repeated install is rejected the same way.
C3_AlreadyInstalledRejected ==
    (/\ pc \notin {"idle", "validate", "bridge", "conflict"}
     /\ CalledOk("GetAndValidatePlugin")
     /\ IsPluginInstalled(regAtStart, plugin.Name)
     /\ ~Force)
    => /\ pc = "done"
       /\ err.kind = "PluginAlreadyInstalledError"
       /\ err.Name = plugin.Name
       /\ ~Called("UninstallPlugin")
       /\ ~Called("InstallPluginFromPath")
       /\ registry = regAtStart
       /\ pluginHome = homeAtStart

\* A second version of an installed plugin was rejected and the first is intact.
C3_Witness ==
    /\ pc = "done"
    /\ ~Force
    /\ err.kind = "PluginAlreadyInstalledError"
    /\ \E e \in registry : e.Name = plugin.Name /\ e.Version # plugin.Version
    /\ \E b \in pluginHome : b.Name = plugin.Name /\ b.Version # plugin.Version

\* C4: in a forced install of an installed name, the commit begins only after
\* UninstallPlugin succeeded; when it begins the old entry and the old binary
\* are gone, and no state holds two entries for one name.
C4_UninstallBeforeCommit ==
    /\ \A n \in PluginNames : Cardinality(EntriesNamed(registry, n)) <= 1
    /\ (CommitBegun /\ IsPluginInstalled(regAtStart, plugin.Name))
       => /\ Force
          /\ CalledOk("UninstallPlugin")
          /\ pc = "install" => /\ EntriesNamed(registry, plugin.Name) = {}
                               /\ BinariesNamed(pluginHome, plugin.Name) = {}
          /\ pc = "add" => /\ EntriesNamed(registry, plugin.Name) = {}
                           /\ BinariesNamed(pluginHome, plugin.Name) = {BinaryOf(plugin)}

\* The new binary of a forced reinstall is in place and its entry not yet added.
C4_Witness ==
    /\ pc = "add"
    /\ Force
    /\ IsPluginInstalled(regAtStart, plugin.Name)
    /\ EntriesNamed(registry, plugin.Name) = {}

\* C5: once UninstallPlugin has failed in a forced install, the attempt has
\* ended with that failure, InstallPluginFromPath is not called and the
\* registry and the installed binaries are as they were.
C5_UninstallFailureAborts ==
    (Called("UninstallPlugin") /\ ~CalledOk("UninstallPlugin"))
    => /\ pc = "done"
       /\ err = ActorError("UninstallError")
       /\ ~Called("InstallPluginFromPath")
       /\ registry = regAtStart
       /\ pluginHome = homeAtStart

\* A forced reinstall ended with the uninstall failure, the old entry in place.
C5_Witness ==
    /\ pc = "done"
    /\ Force
    /\ err.kind = "UninstallError"
    /\ IsPluginInstalled(registry, plugin.Name)

Declined == \E i \in 1..Len(calls) : calls[i] = Call("DisplayBoolPrompt", FALSE)
Prompted == Called("DisplayBoolPrompt") \/ Called("DisplayBoolPromptError")
StagingOps == {"CreateExecutableCopy", "FetchPluginFromURL"}

\* C6: once the user has declined the prompt, the attempt has ended with the
\* Cancelled outcome, nothing was staged, validated, uninstalled or installed,
\* the registry and the installed binaries are as they were and no staged
\* file exists; no other path ends with the Cancelled outcome.
C6_DeclineCancels ==
    /\ Declined
       => /\ pc = "done"
          /\ err = Error("PluginInstallationCancelled")
          /\ ~StagingCalled
          /\ ~Called("NewRPCService")
          /\ ~Called("GetAndValidatePlugin")
          /\ ~Called("UninstallPlugin")
          /\ ~Called("InstallPluginFromPath")
          /\ registry = regAtStart
          /\ pluginHome = homeAtStart
          /\ tempPluginPath = ""
          /\ tempDir = {}
    /\ (pc = "done" /\ err.kind = "PluginInstallationCancelled") => (Declined /\ ~Force)

\* The prompt for an existing local file was declined with a plugin installed.
C6_Witness ==
    /\ pc = "done"
    /\ Declined
    /\ DeterminePathType(pluginPath) = "PluginFilePath"
    /\ registry # {}

\* C7: every staging call comes after the warning and, unless the force flag
\* is set, after a confirmed prompt; once the warning has been shown, the
\* prompt was asked exactly when the force flag is not set; and no attempt is
\* at or past staging without the warning.
C7_ConfirmBeforeStaging ==
    /\ \A j \in 1..Len(calls) :
         calls[j].op \in StagingOps
         => /\ \E i \in 1..(j-1) : calls[i].op = "DisplayHeader"
            /\ Force \/ \E i \in 1..(j-1) : calls[i] = Call("DisplayBoolPrompt", TRUE)
    /\ Called("DisplayHeader") => (Prompted <=> ~Force)
    /\ pc \in {"stage", "rpc", "validate", "bridge", "conflict", "uninstall", "install", "add"}
       => Called("DisplayHeader")

\* A download was staged after the user confirmed the prompt.
C7_Witness ==
    /\ ~Force
    /\ calls = <<Call("DisplayHeader", TRUE), Call("DisplayBoolPrompt", TRUE),
                 Call("FetchPluginFromURL", TRUE)>>

\* C8: once FetchPluginFromURL has failed, the attempt has ended with
\* FetchError, nothing was validated, uninstalled or installed and the
\* registry is as it was.
C8_FetchFailureEndsAttempt ==
    (Called("FetchPluginFromURL") /\ ~CalledOk("FetchPluginFromURL"))
    => /\ pc = "done"
       /\ err.kind = "FetchError"
       /\ ~Called("GetAndValidatePlugin")
       /\ ~Called("UninstallPlugin")
       /\ ~Called("InstallPluginFromPath")
       /\ registry = regAtStart

\* C9: an attempt whose registry add failed after the move has returned with
\* no binary of that plugin at the install location; and whenever no attempt
\* is running, the installed binaries are exactly those of the registry's
\* entries.
C9_RegistryMatchesDisk ==
    /\ (pc = "done" /\ Called("Registry.add") /\ ~CalledOk("Registry.add"))
       => BinariesNamed(pluginHome, plugin.Name) = {}
    /\ Resting => pluginHome = {BinaryOf(e) : e \in registry}

\* The add failed after the move succeeded, another plugin being installed.
C9_Witness ==
    /\ pc = "done"
    /\ CalledOk("InstallPluginFromPath")
    /\ err.kind = "RegistryWriteError"
    /\ registry # {}

PipelineOps == {"FileExists", "CreateExecutableCopy", "FetchPluginFromURL",
                "NewRPCService", "GetAndValidatePlugin"}

\* C10: UninstallPlugin and InstallPluginFromPath are called only after
\* GetAndValidatePlugin succeeded in the same attempt, and a failed stage is
\* the last call of its attempt, which has ended.
C10_StagesShortCircuit ==
    /\ \A j \in 1..Len(calls) :
         calls[j].op \in {"UninstallPlugin", "InstallPluginFromPath"}
         => \E i \in 1..(j-1) : (calls[i].op = "GetAndValidatePlugin" /\ calls[i].ok)
    /\ \A i \in 1..Len(calls) :
         (calls[i].op \in PipelineOps /\ ~calls[i].ok)
         => (i = Len(calls) /\ pc \in {"done", "crashed"})

\* The entries of other plugins, installed when the attempt began, that own
\* a command name or alias the reported metadata declares.
Sharing == {e \in regAtStart :
              e.Name # reported.Name /\ Owned(e.Commands) \cap reported.Owns # {}}
\* The reported metadata passes the rules checked before the collision rule.
ReportedWellFormed ==
    reported.Name \in PluginNames /\ reported.Owns \cap BuiltinCommands = {}

C11_ReinstallWitness ==
    /\ CalledOk("GetAndValidatePlugin")
    /\ reported.Name = "echo"
    /\ \E e \in regAtStart : e.Name = "echo" /\ Owned(e.Commands) \cap reported.Owns # {}

(***************************** fairness **********************************)
\* The steps inside one call of Execute.  Execute runs in one goroutine and
\* each collaborator call returns (the bridge within its timeouts, the prompt
\* when the user answers), so a running attempt takes its next step.  When
\* the next install or uninstall command is typed is up to the user.
AttemptStep ==
    \/ Prepare
    \/ PromptSkipped
    \/ PromptAnswered
    \/ PromptFailed
    \/ StageCopy
    \/ StageCopyFailed
    \/ StageFetch
    \/ StageFetchFailed
    \/ NewRPCService
    \/ BridgeStart
    \/ GetAndValidate
    \/ ConflictCheck
    \/ UninstallExisting
    \/ UninstallExistingFailed
    \/ InstallMove
    \/ InstallAdd
    \/ InstallAddFailed

FairSpec == Spec /\ WF_vars(AttemptStep)

\* An attempt past the argument check returns or panics.
AttemptEndsOrPanics == (pc = "prepare") ~> (pc \in {"done", "crashed"})

\* C12: every attempt that entered the pipeline eventually returns to its
\* caller, with success or with an error; a launched plugin subprocess is
\* eventually terminated; and an attempt that got HandshakeTimeoutError has
\* returned with the subprocess terminated.
C12_AttemptTerminates ==
    /\ (pc = "prepare") ~> (pc = "done")
    /\ (subprocess = "running") ~> (subprocess = "terminated")
    /\ []((err.kind = "HandshakeTimeoutError") => (pc = "done" /\ subprocess = "terminated"))

\* The handshake never arrived: the attempt returned the timeout error.
HandshakeTimedOut ==
    /\ pc = "done"
    /\ err.kind = "HandshakeTimeoutError"
    /\ subprocess = "terminated"
    /\ tempPluginPath \notin tempDir

\* C13: the version in the already-installed error of an attempt made
\* without force is the version of the entry of that name in the registry.
C13_ErrorCarriesInstalledVersion ==
    (pc = "done" /\ ~Force /\ err.kind = "PluginAlreadyInstalledError")
    => \E e \in registry : e.Name = err.Name /\ e.Version = err.Version

\* The attempt is past the switch of preparePluginForInstallation.
PastPrepare == pc \notin {"idle", "legacy", "prepare"} /\ pluginPath # ""

PathOps == {"GetAndValidatePlugin", "InstallPluginFromPath"}

\* C15: in an attempt for a local path, every path handed to
\* GetAndValidatePlugin or InstallPluginFromPath is the staged path, a
\* temporary path other than the user's; and the user's file, found to exist
\* when the attempt began, exists at every later point of the attempt, so it
\* was neither moved nor removed.
C15_UserFileUntouched ==
    DeterminePathType(pluginPath) = "PluginFilePath"
    => /\ \A i \in 1..Len(calls) :
            calls[i].op \in PathOps
            => /\ calls[i].arg = tempPluginPath
               /\ calls[i].arg \in TempPaths
               /\ calls[i].arg # pluginPath
       /\ CalledOk("FileExists") => FileExists(userFiles, pluginPath)
       /\ pc \in {"rpc", "validate", "bridge", "conflict", "uninstall", "install"}
          => (tempPluginPath \in tempDir /\ tempPluginPath # pluginPath)

\* A local file was validated and installed from its staged copy and is
\* still where the user put it.
C15_Witness ==
    /\ pc = "done"
    /\ err = NoError
    /\ DeterminePathType(pluginPath) = "PluginFilePath"
    /\ \E i \in 1..Len(calls) : calls[i] = CallWith("GetAndValidatePlugin", TRUE, tempPluginPath)
    /\ \E i \in 1..Len(calls) : calls[i] = CallWith("InstallPluginFromPath", TRUE, tempPluginPath)
    /\ tempPluginPath \in TempPaths
    /\ FileExists(userFiles, pluginPath)
    /\ tempPluginPath \notin tempDir

\* InstallPluginFromPath was called and failed, at the move or at the add.
CommitFailed ==
    \/ (Called("InstallPluginFromPath") /\ ~CalledOk("InstallPluginFromPath"))
    \/ (Called("Registry.add") /\ ~CalledOk("Registry.add"))

\* C16: when a forced install of an installed name has uninstalled the old
\* version and the commit of the new one then failed, the attempt has
\* returned the commit's error and the registry holds no entry of that name,
\* neither the old nor the new one; at no time does it hold both.
C16_FailedCommitLeavesUninstalled ==
    /\ (/\ Force
        /\ IsPluginInstalled(regAtStart, plugin.Name)
        /\ CalledOk("UninstallPlugin")
        /\ CommitFailed)
       => /\ pc = "done"
          /\ err.kind \in {"MoveError", "RegistryWriteError"}
          /\ EntriesNamed(registry, plugin.Name) = {}
          /\ registry = RegistryRemove(regAtStart, plugin.Name)
    /\ (Force /\ CalledOk("UninstallPlugin"))
       => Cardinality(EntriesNamed(registry, plugin.Name)) <= 1

\* The add of the new version failed after the old version was uninstalled,
\* another plugin staying installed.
C16_Witness ==
    /\ pc = "done"
    /\ Force
    /\ CalledOk("UninstallPlugin")
    /\ err.kind = "RegistryWriteError"
    /\ IsPluginInstalled(regAtStart, plugin.Name)
    /\ ~IsPluginInstalled(registry, plugin.Name)
    /\ registry # {}

\* C17: an attempt for a local path that names no file has, once past the
\* existence check, ended with FileNotFoundError carrying that path, with or
\* without the force flag; the existence check is its only collaborator
\* call, so no warning or prompt was shown and nothing was staged, validated,
\* uninstalled or installed, and the registry and binaries are as they were.
C17_MissingFileRejected ==
    (/\ PastPrepare
     /\ DeterminePathType(pluginPath) = "PluginFilePath"
     /\ ~FileExists(userFiles, pluginPath))
    => /\ pc = "done"
       /\ err = [Error("FileNotFoundError") EXCEPT !.Path = pluginPath]
       /\ calls = <<Call("FileExists", FALSE)>>
       /\ tempPluginPath = ""
       /\ tempDir = {}
       /\ registry = regAtStart
       /\ pluginHome = homeAtStart

\* A forced install of a missing file was refused, a plugin being installed.
C17_Witness ==
    /\ pc = "done"
    /\ Force
    /\ pluginPath = "/dl/missing"
    /\ err.kind = "FileNotFoundError"
    /\ ~Called("DisplayHeader")
    /\ registry # {}

\* C18: an attempt that returned PluginInvalidError returned it with the
\* source string the user gave as its path, which is not a temporary path,
\* although the binary that failed validation was the staged one.
C18_InvalidErrorNamesUserPath ==
    (pc = "done" /\ err.kind = "PluginInvalidError")
    => /\ err.Path = pluginPath
       /\ err.Path \notin TempPaths
       /\ err.Path # tempPluginPath
       /\ \E i \in 1..Len(calls) :
            calls[i] = CallWith("GetAndValidatePlugin", FALSE, tempPluginPath)

\* A downloaded binary that is no plugin was rejected under the URL the user gave.
C18_Witness ==
    /\ pc = "done"
    /\ err.kind = "PluginInvalidError"
    /\ pluginPath \in URLs
    /\ err.Path = pluginPath
    /\ tempPluginPath \in TempPaths
    /\ tempPluginPath \notin tempDir

ByNameReturned == stackCall.op = "GetStackByName"

\* C19 as stated: GetStackByName returns the first stack of the client's
\* result whenever the result is non-empty, StackNotFoundError with the
\* requested name when it is empty and the client reported no error, the
\* client's error otherwise, and the client's warnings in all three cases.
C19_FirstStackWheneverNonEmpty ==
    ByNameReturned
    => /\ stackReturn.warnings = clientReply.warnings
       /\ Len(clientReply.stacks) > 0 => stackReturn.stack = clientReply.stacks[1]
       /\ (Len(clientReply.stacks) = 0 /\ clientReply.err = NilError)
          => stackReturn.err = StackNotFoundError(stackCall.arg, "")
       /\ (Len(clientReply.stacks) = 0 /\ clientReply.err # NilError)
          => stackReturn.err = clientReply.err

\* C19, amended: the client's error comes first.  When the client reported an
\* error GetStackByName returns it unchanged with the empty Stack, whatever
\* the result holds; when it reported none, an empty result gives
\* StackNotFoundError with the requested name (and no GUID) and the empty
\* Stack, and a non-empty one gives its first stack and no error; the
\* client's warnings are returned unchanged in all three cases.
C19_ErrorFirstThenFirstStack ==
    ByNameReturned
    => /\ stackReturn.warnings = clientReply.warnings
       /\ clientReply.err # NilError
          => (stackReturn.err = clientReply.err /\ stackReturn.stack = EmptyStack)
       /\ (clientReply.err = NilError /\ Len(clientReply.stacks) = 0)
          => /\ stackReturn.err = StackNotFoundError(stackCall.arg, "")
             /\ stackReturn.stack = EmptyStack
       /\ (clientReply.err = NilError /\ Len(clientReply.stacks) > 0)
          => /\ stackReturn.stack = clientReply.stacks[1]
             /\ stackReturn.err = NilError

\* The client returned two stacks, a warning and an error: the error and the
\* warning came back, the stacks did not.
C19_Witness ==
    /\ ByNameReturned
    /\ Len(clientReply.stacks) = 2
    /\ clientReply.stacks[1] # clientReply.stacks[2]
    /\ clientReply.err = ClientError("RequestError")
    /\ stackReturn.err = clientReply.err
    /\ stackReturn.stack = EmptyStack
    /\ Len(stackReturn.warnings) > 0

==========================================================================
